---------------------------- MODULE Spec2Model ----------------------------
(***************************************************************************)
(* A model of srun (KaranveerB/xrun): the resolution of a token path       *)
(* against a TOML command tree (src/src/command_parser.rs) and the         *)
(* process around it (src/src/main.rs).                                    *)
(*                                                                         *)
(* Strings are TLA+ strings; text is built with \o exactly as the code     *)
(* builds it with += and write!.  A toml::Value is a record                *)
(*   [kind, str, entries]                                                  *)
(* where kind is the enum variant, str the text of a scalar and entries    *)
(* the key/value pairs of a table in the map's iteration order.            *)
(***************************************************************************)
EXTENDS Integers, Sequences, FiniteSets, TLC

VARIABLES
    file,               \* what is at `path`: unreadable, not TOML, or a tree
    prev,               \* the call a direct caller made before this one, if any
    pc,                 \* position of the single thread of control
    ret,                \* who called get_command / get_command_help
    action,             \* Action::Exec or Action::Help
    command,            \* the token path handed to the resolver
    idx,                \* position of `for token in command`
    toml_data,          \* get_command_toml's cursor
    command_not_found,  \* get_command_toml's flag
    error_string,       \* get_command_toml's accumulator
    help_pairs,         \* get_command_help's vector
    kidx,               \* position of `for (k, v) in &toml_data`
    result,             \* the Result the resolver returned
    args,               \* env::args().skip(1)
    options,            \* the arguments that start with '-'
    oidx,               \* position of `for option in options`
    passthrough,        \* main's flag
    stdout,             \* text this process wrote to standard output
    stderr,             \* text this process wrote to standard error
    failure,            \* the Err that command_runner / help_runner returned
    spawned,            \* the argv of the shell this process spawned, or <<>>
    child,              \* <<the ExitStatus that wait() gave>>, or <<>>
    exit_code           \* <<the exit status>> once the process has exited

vars == <<file, prev, pc, ret, action, command, idx, toml_data, command_not_found,
          error_string, help_pairs, kidx, result, args, options, oidx,
          passthrough, stdout, stderr, failure, spawned, child, exit_code>>

walkVars == <<idx, toml_data, command_not_found, error_string>>
mainVars == <<args, options, oidx, passthrough, stdout, stderr, failure, spawned,
              child, exit_code>>

-----------------------------------------------------------------------------
(* Bounds *)

MaxTokens == 3      \* longest token path handed to the resolver directly
MaxArgs == 3        \* longest argument list given to the process

-----------------------------------------------------------------------------
(* toml values *)

NoValue == [kind |-> "None", str |-> "", entries |-> <<>>]

Scalar(kind, text) == [kind |-> kind, str |-> text, entries |-> <<>>]

Str(text) == Scalar("String", text)

Tbl(entries) == [kind |-> "Table", str |-> "", entries |-> entries]

Entry(k, v) == [k |-> k, v |-> v]

None == [some |-> FALSE, val |-> NoValue]

Some(v) == [some |-> TRUE, val |-> v]

NoneStr == [some |-> FALSE, str |-> ""]

SomeStr(s) == [some |-> TRUE, str |-> s]

\* Map::get on a table value
Get(t, key) ==
    IF \E i \in 1..Len(t.entries) : t.entries[i].k = key
    THEN Some(t.entries[CHOOSE i \in 1..Len(t.entries) : t.entries[i].k = key].v)
    ELSE None

\* Value::get with a string index: only a table has keys
ValueGet(v, key) == IF v.kind = "Table" THEN Get(v, key) ELSE None

\* Value::as_str
AsStr(v) == IF v.kind = "String" THEN SomeStr(v.str) ELSE NoneStr

\* `.get("desc").and_then(|s| s.as_str())`
DescOf(v) ==
    LET d == ValueGet(v, "desc")
    IN  IF d.some THEN AsStr(d.val) ELSE NoneStr

value_as_name_swapped(value) ==
    CASE value.kind = "String"   -> "String"
      [] value.kind = "Integer"  -> "Float"
      [] value.kind = "Float"    -> "Integer"
      [] value.kind = "Boolean"  -> "Boolean"
      [] value.kind = "Datetime" -> "Datetime"
      [] value.kind = "Array"    -> "Table"
      [] value.kind = "Table"    -> "Array"

value_as_name(value) ==
    CASE value.kind = "String"   -> "String"
      [] value.kind = "Integer"  -> "Integer"
      [] value.kind = "Float"    -> "Float"
      [] value.kind = "Boolean"  -> "Boolean"
      [] value.kind = "Datetime" -> "Datetime"
      [] value.kind = "Array"    -> "Array"
      [] value.kind = "Table"    -> "Table"

-----------------------------------------------------------------------------
(* Errors and results *)

NotTomlString(component, value) ==
    [reason |-> "NotTomlString", key |-> component, value |-> value]

NotTomlTable(component, value) ==
    [reason |-> "NotTomlTable", key |-> component, value |-> value]

MissingKey(key) == [reason |-> "MissingKey", key |-> key, value |-> NoValue]

IoError(msg) == [tag |-> "IoError", str |-> msg]

TomlDeError(msg) == [tag |-> "TomlDeError", str |-> msg]

CommandNotFoundError(s) == [tag |-> "CommandNotFoundError", str |-> s]

CommandContentInvalid(r) == [tag |-> "CommandContentInvalid", invalid |-> r]

Ok(v) == [tag |-> "Ok", val |-> v]

NoResult == [tag |-> "None"]

IsErr(r) == r.tag \notin {"Ok", "None"}

HelpPair(name, desc) == [name |-> name, desc |-> desc]

\* A TLA+ string literal cannot hold the grave accent; it is written by its
\* code point.
Backtick == "<U+0060>"

\* Display for InvalidContentReason
DisplayReason(r) ==
    CASE r.reason = "NotTomlString" ->
            "Expected key '" \o r.key \o "' to be String but got " \o value_as_name(r.value)
      [] r.reason = "NotTomlTable" ->
            "Expected key '" \o r.key \o "' to be Table but got " \o value_as_name(r.value)
      [] r.reason = "MissingKey" ->
            "Expected key '" \o r.key \o "' but it is not present"

\* Display for CommandParseError
DisplayError(e) ==
    CASE e.tag = "IoError" -> e.str
      [] e.tag = "TomlDeError" -> "TOML parse error - " \o e.str
      [] e.tag = "CommandNotFoundError" ->
            "Command " \o Backtick \o e.str \o Backtick \o " not found"
      [] e.tag = "CommandContentInvalid" ->
            "Command content invalid - " \o DisplayReason(e.invalid)

-----------------------------------------------------------------------------
(* The configurations and token paths the model runs on *)

\* `command` values of a leaf command: absent, two strings, and one value of
\* every other kind
CommandFields ==
    {<<>>} \cup
    {<<Entry("command", v)>> : v \in
        {Str("echo c1 ran"), Str("  ls  -l 'a b' "),
         Scalar("Integer", "1"), Scalar("Float", "1.5"), Scalar("Boolean", "true"),
         Scalar("Datetime", "1979-05-27"), Scalar("Array", "[]"), Tbl(<<>>)}}

DescFields == {<<>>, <<Entry("desc", Str("c1 desc"))>>}

Leaves ==
    {Tbl(c \o d) : c \in CommandFields, d \in DescFields}
        \cup {Tbl(<<Entry("desc", Scalar("Integer", "7")), Entry("command", Str("echo c1 ran"))>>)}

\* the entry c1 of s: absent, a scalar, or a leaf command
C1Fields ==
    {<<>>, <<Entry("c1", Str("quux"))>>} \cup {<<Entry("c1", l)>> : l \in Leaves}

SFields ==
    {d \o c1 \o c : d \in {<<>>, <<Entry("desc", Str("s desc"))>>},
                    c1 \in C1Fields,
                    c \in {<<>>, <<Entry("command", Str("echo s ran"))>>}}

\* BASIC_TOML_COMMAND_DATA of tests/integration_test.rs
BasicToml ==
    Tbl(<<Entry("s", Tbl(<<Entry("desc", Str("s desc")),
                           Entry("c1", Tbl(<<Entry("command", Str("echo c1 ran")),
                                             Entry("desc", Str("c1 desc"))>>)),
                           Entry("c2", Tbl(<<Entry("command", Str("echo c2 ran"))>>))>>))>>)

\* TOML_COMMAND_DATA of command_parser.rs, with foo, bar, qux, baz named
\* s, c1, c2, dne
UnitToml ==
    Tbl(<<Entry("s", Tbl(<<Entry("c1", Tbl(<<Entry("command", Str("bar exec")),
                                             Entry("desc", Str("bar desc"))>>)),
                           Entry("c2", Str("quux")),
                           Entry("desc", Str("foo desc")),
                           Entry("command", Tbl(<<>>))>>)),
          Entry("dne", Tbl(<<>>))>>)

\* documents whose root has fields of its own next to s
RootFieldTomls ==
    {Tbl(<<Entry("command", Str("echo root")), Entry("desc", Str("root desc")),
           Entry("s", Tbl(<<Entry("c1", Tbl(<<Entry("command", Str("echo c1 ran"))>>))>>))>>),
     Tbl(<<Entry("c1", Tbl(<<Entry("command", Str("echo top c1"))>>)),
           Entry("s", Str("scalar s")), Entry("desc", Scalar("Boolean", "false"))>>),
     Tbl(<<>>)}

\* documents in which desc names a table
DescTableTomls ==
    {Tbl(<<Entry("s", Tbl(<<Entry("command", Str("echo s ran")),
                            Entry("desc", Tbl(<<Entry("command", Str("echo desc ran"))>>)),
                            Entry("c1", Tbl(<<Entry("desc", Str("c1 desc"))>>))>>))>>),
     Tbl(<<Entry("s", Tbl(<<Entry("desc", Tbl(<<>>)),
                            Entry("command", Str("echo s ran"))>>))>>)}

Trees ==
    {Tbl(<<Entry("s", Tbl(f))>>) : f \in SFields}
        \cup {BasicToml, UnitToml} \cup RootFieldTomls \cup DescTableTomls

Toml(root) == [kind |-> "Toml", root |-> root]

\* no file at path, a file that cannot be read, a file that is not TOML
Absent == [kind |-> "Absent", root |-> NoValue]

Unreadable == [kind |-> "Unreadable", root |-> NoValue]

Invalid == [kind |-> "Invalid", root |-> NoValue]

Files == {Absent, Unreadable, Invalid} \cup {Toml(t) : t \in Trees}

Tokens == {"s", "c1", "dne", "desc", "command"}

SeqsUpTo(S, n) == UNION {[1..m -> S] : m \in 0..n}

Paths == SeqsUpTo(Tokens, MaxTokens)

-----------------------------------------------------------------------------
(* A caller inside the crate (the unit tests) calling the two resolvers *)

\* no earlier call
NoCall == [action |-> "None", command |-> <<>>, result |-> NoResult]

NewHelpPairs_reused(old) == old

\* let mut help_pairs: Vec<HelpPair> = vec![]
NewHelpPairs(old) == <<>>

\* get_command(path, &command) / get_command_help(path, &command); a second
\* call is made with the tokens of the first
Call ==
    /\ pc = "idle"
    /\ ret = "test"
    /\ \E a \in {"Exec", "Help"}, c \in Paths :
         /\ prev = NoCall \/ c = prev.command
         /\ action' = a
         /\ command' = c
         /\ help_pairs' = IF a = "Help" THEN NewHelpPairs(help_pairs) ELSE help_pairs
    /\ pc' = "get_command_toml"
    /\ UNCHANGED <<file, prev, ret, walkVars, kidx, result, mainVars>>

\* the caller keeps the first call's Result to compare the second with; the
\* resolver's locals are dead and stay as the call left them
Drop ==
    /\ pc = "returned"
    /\ ret = "test"
    /\ prev = NoCall
    /\ prev' = [action |-> action, command |-> command, result |-> result]
    /\ pc' = "idle"
    /\ result' = NoResult
    /\ UNCHANGED <<file, ret, action, command, walkVars, help_pairs, kidx, mainVars>>

\* the caller is done with both Results; another test starts on the file
EndTest ==
    /\ pc = "returned"
    /\ ret = "test"
    /\ prev # NoCall
    /\ prev' = NoCall
    /\ pc' = "idle"
    /\ result' = NoResult
    /\ help_pairs' = <<>>
    /\ kidx' = 1
    /\ idx' = 1
    /\ toml_data' = NoValue
    /\ command_not_found' = FALSE
    /\ error_string' = ""
    /\ action' = "Exec"
    /\ command' = <<>>
    /\ UNCHANGED <<file, ret, mainVars>>

-----------------------------------------------------------------------------
(* get_command_toml *)

Return(r) ==
    /\ result' = r
    /\ pc' = IF ret = "test" THEN "returned" ELSE ret

\* fs::read_to_string(path)? ; toml_to_map(toml_str)? ; the locals
ReadConfig ==
    /\ pc = "get_command_toml"
    /\ CASE file.kind = "Absent" ->
              /\ Return(IoError("No such file or directory (os error 2)"))
              /\ UNCHANGED walkVars
         [] file.kind = "Unreadable" ->
              /\ Return(IoError("Permission denied (os error 13)"))
              /\ UNCHANGED walkVars
         [] file.kind = "Invalid" ->
              /\ Return(TomlDeError("expected an equals, found an identifier"))
              /\ UNCHANGED walkVars
         [] file.kind = "Toml" ->
              /\ toml_data' = file.root
              /\ command_not_found' = FALSE
              /\ error_string' = ""
              /\ idx' = 1
              /\ pc' = "walk"
              /\ UNCHANGED result
    /\ UNCHANGED <<file, prev, ret, action, command, help_pairs, kidx, mainVars>>

MatchArm_scalar_as_absent(found) ==
    CASE found.some /\ found.val.kind = "Table" -> "Table"
      [] OTHER -> "None"

\* the arm of `match toml_data.get(*token)` that is taken
MatchArm(found) ==
    CASE found.some /\ found.val.kind = "Table" -> "Table"
      [] found.some /\ found.val.kind # "Table" -> "Value"
      [] ~found.some -> "None"

FirstMiss_dropped(s, token) == s

\* error_string += &token
FirstMiss(s, token) == s \o token

LaterToken_no_space(s, token) == s \o token

\* error_string += " "; error_string += token
LaterToken(s, token) == (s \o " ") \o token

\* one iteration of `for token in command`
WalkStep ==
    /\ pc = "walk"
    /\ idx <= Len(command)
    /\ LET token == command[idx]
           found == Get(toml_data, token)
       IN  IF ~command_not_found
           THEN CASE MatchArm(found) = "Table" ->
                       /\ toml_data' = found.val
                       /\ idx' = idx + 1
                       /\ UNCHANGED <<pc, result, command_not_found, error_string>>
                  [] MatchArm(found) = "Value" ->
                       /\ Return(CommandContentInvalid(NotTomlTable(token, found.val)))
                       /\ UNCHANGED walkVars
                  [] MatchArm(found) = "None" ->
                       /\ command_not_found' = TRUE
                       /\ error_string' = FirstMiss(error_string, token)
                       /\ idx' = idx + 1
                       /\ UNCHANGED <<pc, result, toml_data>>
           ELSE /\ error_string' = LaterToken(error_string, token)
                /\ idx' = idx + 1
                /\ UNCHANGED <<pc, result, toml_data, command_not_found>>
    /\ UNCHANGED <<file, prev, ret, action, command, help_pairs, kidx, mainVars>>

\* after the loop: Err(CommandNotFoundError(error_string)) or Ok(toml_data)
WalkEnd ==
    /\ pc = "walk"
    /\ idx > Len(command)
    /\ IF command_not_found
       THEN Return(CommandNotFoundError(error_string))
       ELSE /\ pc' = IF action = "Exec" THEN "get_command" ELSE "get_command_help"
            /\ UNCHANGED result
    /\ UNCHANGED <<file, prev, ret, action, command, walkVars, help_pairs, kidx, mainVars>>

-----------------------------------------------------------------------------
(* get_command *)

CommandOf_desc_as_fallback(node) ==
    LET exec_cmd == Get(node, "command")
    IN  IF exec_cmd.some
        THEN IF AsStr(exec_cmd.val).some
             THEN Ok(AsStr(exec_cmd.val).str)
             ELSE CommandContentInvalid(NotTomlString("command", exec_cmd.val))
        ELSE IF DescOf(node).some
             THEN Ok(DescOf(node).str)
             ELSE CommandContentInvalid(MissingKey("command"))

CommandOf_first_field(node) ==
    LET exec_cmd == IF Len(node.entries) > 0 THEN Some(node.entries[1].v) ELSE None
    IN  IF exec_cmd.some
        THEN IF AsStr(exec_cmd.val).some
             THEN Ok(AsStr(exec_cmd.val).str)
             ELSE CommandContentInvalid(NotTomlString("command", exec_cmd.val))
        ELSE CommandContentInvalid(MissingKey("command"))

CommandOf_leaf_only(node) ==
    LET exec_cmd == Get(node, "command")
    IN  IF exec_cmd.some /\ ~\E i \in 1..Len(node.entries) : node.entries[i].v.kind = "Table"
        THEN IF AsStr(exec_cmd.val).some
             THEN Ok(AsStr(exec_cmd.val).str)
             ELSE CommandContentInvalid(NotTomlString("command", exec_cmd.val))
        ELSE CommandContentInvalid(MissingKey("command"))

\* match toml_data.get("command")
CommandOf(node) ==
    LET exec_cmd == Get(node, "command")
    IN  IF exec_cmd.some
        THEN IF AsStr(exec_cmd.val).some
             THEN Ok(AsStr(exec_cmd.val).str)
             ELSE CommandContentInvalid(NotTomlString("command", exec_cmd.val))
        ELSE CommandContentInvalid(MissingKey("command"))

\* the body of get_command once get_command_toml has returned Ok
GetCommand ==
    /\ pc = "get_command"
    /\ Return(CommandOf(toml_data))
    /\ UNCHANGED <<file, prev, ret, action, command, walkVars, help_pairs, kidx, mainVars>>

-----------------------------------------------------------------------------
(* get_command_help *)

\* the entry for the command itself
HelpSelf ==
    /\ pc = "get_command_help"
    /\ LET desc == DescOf(toml_data)
       IN  help_pairs' = Append(help_pairs, HelpPair(NoneStr, desc))
    /\ kidx' = 1
    /\ pc' = "help_loop"
    /\ UNCHANGED <<file, prev, ret, action, command, walkVars, result, mainVars>>

Listed_either(k) == k # "desc" \/ k # "command"

\* k != "desc" && k != "command"
Listed(k) == k # "desc" /\ k # "command"

\* one iteration of `for (k, v) in &toml_data`
HelpLoop ==
    /\ pc = "help_loop"
    /\ kidx <= Len(toml_data.entries)
    /\ LET k == toml_data.entries[kidx].k
           v == toml_data.entries[kidx].v
       IN  IF Listed(k)
           THEN help_pairs' = Append(help_pairs, HelpPair(SomeStr(k), DescOf(v)))
           ELSE UNCHANGED help_pairs
    /\ kidx' = kidx + 1
    /\ UNCHANGED <<file, prev, pc, ret, action, command, walkVars, result, mainVars>>

\* Ok(help_pairs)
HelpEnd ==
    /\ pc = "help_loop"
    /\ kidx > Len(toml_data.entries)
    /\ Return(Ok(help_pairs))
    /\ UNCHANGED <<file, prev, ret, action, command, walkVars, help_pairs, kidx, mainVars>>

-----------------------------------------------------------------------------
(* The resolvers called directly, any number of times, on one file *)

Init ==
    /\ file \in Files
    /\ prev = NoCall
    /\ pc = "idle"
    /\ ret = "test"
    /\ action = "Exec"
    /\ command = <<>>
    /\ idx = 1
    /\ toml_data = NoValue
    /\ command_not_found = FALSE
    /\ error_string = ""
    /\ help_pairs = <<>>
    /\ kidx = 1
    /\ result = NoResult
    /\ args = <<>>
    /\ options = <<>>
    /\ oidx = 1
    /\ passthrough = FALSE
    /\ stdout = ""
    /\ stderr = ""
    /\ failure = NoResult
    /\ spawned = <<>>
    /\ child = <<>>
    /\ exit_code = <<>>

Next ==
    \/ Call
    \/ Drop
    \/ EndTest
    \/ ReadConfig
    \/ WalkStep
    \/ WalkEnd
    \/ GetCommand
    \/ HelpSelf
    \/ HelpLoop
    \/ HelpEnd

Spec == Init /\ [][Next]_vars

-----------------------------------------------------------------------------
(* main.rs: the process *)

PROG_NAME == "srun"

\* the arguments of the model that start with '-'
DashArgs == {"-h", "--help", "-p", "--passthrough", "-x"}

\* s.starts_with('-')
StartsWithDash(s) == s \in DashArgs

ArgAlphabet == {"s", "c1", "dne"} \cup DashArgs

ArgLists == SeqsUpTo(ArgAlphabet, MaxArgs)

MainFiles ==
    {Absent, Unreadable, Invalid}
        \cup {Toml(t) : t \in {BasicToml, UnitToml} \cup RootFieldTomls}
        \cup {Toml(Tbl(<<Entry("s", Tbl(<<Entry("c1", l)>>))>>)) : l \in Leaves}

\* $SHELL, or "sh" when it is not set
Shells == {"sh", "/bin/bash", "/usr/bin/fish", "/bin/dash"}

\* shell.ends_with("bash") || shell.ends_with("zsh") || shell.ends_with("fish")
IsInteractiveShell(shell) == shell \in {"/bin/bash", "/usr/bin/fish"}

\* what wait() can report of the child on Unix: an exit code or a signal
Exited(code) == [kind |-> "code", n |-> code]

Signaled(sig) == [kind |-> "signal", n |-> sig]

Statuses == {Exited(0), Exited(1), Exited(42), Signaled(9), Signaled(15)}

Eprintln(text) == stderr' = stderr \o text \o "\n"

\* std::process::exit(code)
Exit(code) ==
    /\ exit_code' = <<code>>
    /\ pc' = "exited"

\* args.iter().map(..).partition(|&s| s.starts_with('-')) and the flags' defaults
ParseArgs ==
    /\ pc = "main"
    /\ options' = SelectSeq(args, StartsWithDash)
    /\ command' = SelectSeq(args, LAMBDA a : ~StartsWithDash(a))
    /\ action' = "Exec"
    /\ passthrough' = FALSE
    /\ oidx' = 1
    /\ pc' = "options"
    /\ UNCHANGED <<file, prev, ret, walkVars, help_pairs, kidx, result, args, stdout, stderr,
                   failure, spawned, child, exit_code>>

\* one iteration of `for option in options`
OptionStep ==
    /\ pc = "options"
    /\ oidx <= Len(options)
    /\ LET option == options[oidx]
       IN  CASE option \in {"--help", "-h"} ->
                  /\ action' = "Help"
                  /\ oidx' = oidx + 1
                  /\ UNCHANGED <<pc, passthrough, stderr, exit_code>>
             [] option \in {"--passthrough", "-p"} ->
                  /\ passthrough' = TRUE
                  /\ oidx' = oidx + 1
                  /\ UNCHANGED <<pc, action, stderr, exit_code>>
             [] OTHER ->
                  /\ Eprintln("Unknown flag: " \o option)
                  /\ Exit(1)
                  /\ UNCHANGED <<action, passthrough, oidx>>
    /\ UNCHANGED <<file, prev, ret, command, walkVars, help_pairs, kidx, result, args, options,
                   stdout, failure, spawned, child>>

NoCommand_inverted(cmd, act) == cmd = <<>> /\ act = "Help"

\* command.is_empty() && action != Action::Help
NoCommand(cmd, act) == cmd = <<>> /\ act # "Help"

\* the check after the options loop
CheckCommand ==
    /\ pc = "options"
    /\ oidx > Len(options)
    /\ IF NoCommand(command, action)
       THEN /\ Eprintln("Error: No command provided")
            /\ Exit(1)
       ELSE /\ pc' = "xdg"
            /\ UNCHANGED <<stderr, exit_code>>
    /\ UNCHANGED <<file, prev, ret, action, command, walkVars, help_pairs, kidx, result, args,
                   options, oidx, passthrough, stdout, failure, spawned, child>>

\* xdg::BaseDirectories::with_prefix("srun")? : main returns the Err, which
\* the runtime prints before exiting with 1
XdgDirs ==
    /\ pc = "xdg"
    /\ \E ok \in BOOLEAN :
         IF ok
         THEN /\ pc' = "find_config"
              /\ UNCHANGED <<stderr, exit_code>>
         ELSE /\ Eprintln("Error: HomeMissing")
              /\ Exit(1)
    /\ UNCHANGED <<file, prev, ret, action, command, walkVars, help_pairs, kidx, result, args,
                   options, oidx, passthrough, stdout, failure, spawned, child>>

\* xdg_dirs.find_config_file("command.toml").unwrap_or_else(..)
FindConfig ==
    /\ pc = "find_config"
    /\ IF file.kind = "Absent"
       THEN /\ Eprintln("Error: command.toml does not exist in config directory")
            /\ Exit(1)
       ELSE /\ pc' = "dispatch"
            /\ UNCHANGED <<stderr, exit_code>>
    /\ UNCHANGED <<file, prev, ret, action, command, walkVars, help_pairs, kidx, result, args,
                   options, oidx, passthrough, stdout, failure, spawned, child>>

\* match action: command_runner calls get_command, help_runner calls
\* get_command_help
Dispatch ==
    /\ pc = "dispatch"
    /\ ret' = IF action = "Exec" THEN "command_runner" ELSE "help_runner"
    /\ pc' = "get_command_toml"
    /\ help_pairs' = IF action = "Help" THEN NewHelpPairs(help_pairs) ELSE help_pairs
    /\ UNCHANGED <<file, prev, action, command, walkVars, kidx, result, mainVars>>

\* the ? after get_command / get_command_help
RunnerError ==
    /\ pc \in {"command_runner", "help_runner"}
    /\ IsErr(result)
    /\ failure' = result
    /\ pc' = "or_disp_and_die"
    /\ UNCHANGED <<file, prev, ret, action, command, walkVars, help_pairs, kidx, result, args,
                   options, oidx, passthrough, stdout, stderr, spawned, child, exit_code>>

\* the passthrough branch of command_runner
Passthrough ==
    /\ pc = "command_runner"
    /\ result.tag = "Ok"
    /\ passthrough
    /\ stdout' = stdout \o result.val \o "\n"
    /\ Exit(125)
    /\ UNCHANGED <<file, prev, ret, action, command, walkVars, help_pairs, kidx, result, args,
                   options, oidx, passthrough, stderr, failure, spawned, child>>

ShellArgv_flag_last(shell, exec_command) ==
    <<shell, "-c", exec_command>>
        \o (IF IsInteractiveShell(shell) THEN <<"-i">> ELSE <<>>)

\* Command::new(&shell) [.arg("-i")] .arg("-c").arg(exec_command)
ShellArgv(shell, exec_command) ==
    <<shell>> \o (IF IsInteractiveShell(shell) THEN <<"-i">> ELSE <<>>)
              \o <<"-c", exec_command>>

\* command.spawn()?
Spawn ==
    /\ pc = "command_runner"
    /\ result.tag = "Ok"
    /\ ~passthrough
    /\ \E shell \in Shells, ok \in BOOLEAN :
         IF ok
         THEN /\ spawned' = ShellArgv(shell, result.val)
              /\ pc' = "wait"
              /\ UNCHANGED failure
         ELSE /\ failure' = IoError("No such file or directory (os error 2)")
              /\ pc' = "or_disp_and_die"
              /\ UNCHANGED spawned
    /\ UNCHANGED <<file, prev, ret, action, command, walkVars, help_pairs, kidx, result, args,
                   options, oidx, passthrough, stdout, stderr, child, exit_code>>

ExitCodeOf_raw_signal(status) == status.n

\* status.code(), else 128 + status.signal()
ExitCodeOf(status) ==
    IF status.kind = "code" THEN status.n ELSE 128 + status.n

\* proc.wait()? and the exit with the child's status
Wait ==
    /\ pc = "wait"
    /\ \/ \E status \in Statuses :
            /\ child' = <<status>>
            /\ Exit(ExitCodeOf(status))
            /\ UNCHANGED failure
       \/ /\ failure' = IoError("No child processes (os error 10)")
          /\ pc' = "or_disp_and_die"
          /\ UNCHANGED <<child, exit_code>>
    /\ UNCHANGED <<file, prev, ret, action, command, walkVars, help_pairs, kidx, result, args,
                   options, oidx, passthrough, stdout, stderr, spawned>>

RECURSIVE UsageTokens(_)
\* for command in command { print!(" {}", command) }
UsageTokens(cmd) ==
    IF cmd = <<>> THEN "" ELSE (" " \o Head(cmd)) \o UsageTokens(Tail(cmd))

RECURSIVE CommandLines(_)
\* for HelpPair(cmd, desc) in help_pairs { .. }
CommandLines(pairs) ==
    IF pairs = <<>> THEN ""
    ELSE LET h == Head(pairs)
             line == CASE h.name.some /\ h.desc.some ->
                            "    " \o h.name.str \o ": " \o h.desc.str \o "\n"
                       [] h.name.some /\ ~h.desc.some -> "    " \o h.name.str \o "\n"
                       [] OTHER -> ""
         IN  line \o CommandLines(Tail(pairs))

\* what help_runner prints
HelpText(cmd, pairs) ==
    LET more == Len(pairs) > 1
        base == {i \in DOMAIN pairs : ~pairs[i].name.some}
        first == CHOOSE i \in base : \A j \in base : i <= j
    IN  "usage: " \o PROG_NAME \o UsageTokens(cmd)
            \o (IF more THEN " [command]" ELSE "") \o "\n"
            \o (IF base # {} /\ pairs[first].desc.some
                THEN pairs[first].desc.str \o "\n" \o (IF more THEN "\n" ELSE "")
                ELSE "")
            \o (IF more THEN "commands:\n" \o CommandLines(pairs) ELSE "")

\* help_runner once get_command_help has returned Ok
HelpRunner ==
    /\ pc = "help_runner"
    /\ result.tag = "Ok"
    /\ stdout' = stdout \o HelpText(command, result.val)
    /\ Exit(0)
    /\ UNCHANGED <<file, prev, ret, action, command, walkVars, help_pairs, kidx, result, args,
                   options, oidx, passthrough, stderr, failure, spawned, child>>

\* or_disp_and_die on an Err
OrDispAndDie ==
    /\ pc = "or_disp_and_die"
    /\ Eprintln("Error: " \o DisplayError(failure))
    /\ Exit(1)
    /\ UNCHANGED <<file, prev, ret, action, command, walkVars, help_pairs, kidx, result, args,
                   options, oidx, passthrough, stdout, failure, spawned, child>>

InitMain ==
    /\ file \in MainFiles
    /\ prev = NoCall
    /\ args \in ArgLists
    /\ pc = "main"
    /\ ret = "main"
    /\ action = "Exec"
    /\ command = <<>>
    /\ idx = 1
    /\ toml_data = NoValue
    /\ command_not_found = FALSE
    /\ error_string = ""
    /\ help_pairs = <<>>
    /\ kidx = 1
    /\ result = NoResult
    /\ options = <<>>
    /\ oidx = 1
    /\ passthrough = FALSE
    /\ stdout = ""
    /\ stderr = ""
    /\ failure = NoResult
    /\ spawned = <<>>
    /\ child = <<>>
    /\ exit_code = <<>>

NextMain ==
    \/ ParseArgs
    \/ OptionStep
    \/ CheckCommand
    \/ XdgDirs
    \/ FindConfig
    \/ Dispatch
    \/ ReadConfig
    \/ WalkStep
    \/ WalkEnd
    \/ GetCommand
    \/ HelpSelf
    \/ HelpLoop
    \/ HelpEnd
    \/ RunnerError
    \/ Passthrough
    \/ Spawn
    \/ Wait
    \/ HelpRunner
    \/ OrDispAndDie

SpecMain == InitMain /\ [][NextMain]_vars

-----------------------------------------------------------------------------
(* What the specification says of a tree and a token path, stated on the    *)
(* tree itself                                                              *)

KeysOf(node) == {node.entries[i].k : i \in DOMAIN node.entries}

ValueAt(node, key) ==
    (CHOOSE e \in {node.entries[i] : i \in DOMAIN node.entries} : e.k = key).v

IsTableChild(node, key) == key \in KeysOf(node) /\ ValueAt(node, key).kind = "Table"

RECURSIVE AllTables(_, _)
\* every token of toks names a table-valued child in turn
AllTables(node, toks) ==
    \/ toks = <<>>
    \/ /\ IsTableChild(node, Head(toks))
       /\ AllTables(ValueAt(node, Head(toks)), Tail(toks))

RECURSIVE Reached(_, _)
\* the node reached by toks, all of which name table-valued children
Reached(node, toks) ==
    IF toks = <<>> THEN node ELSE Reached(ValueAt(node, Head(toks)), Tail(toks))

Prefix(toks, n) == SubSeq(toks, 1, n)

Suffix(toks, n) == SubSeq(toks, n, Len(toks))

RECURSIVE JoinSpaces(_)
JoinSpaces(toks) ==
    IF Len(toks) = 1 THEN toks[1] ELSE toks[1] \o " " \o JoinSpaces(Tail(toks))

\* the walk reaches token n with no earlier miss, and token n is no key
\* of the node it has reached
MissesAt(n) ==
    /\ file.kind = "Toml"
    /\ n \in 1..Len(command)
    /\ AllTables(file.root, Prefix(command, n - 1))
    /\ command[n] \notin KeysOf(Reached(file.root, Prefix(command, n - 1)))

\* the walk reaches token n with no earlier miss, and token n names a key
\* whose value is not a table
ScalarAt(n) ==
    /\ file.kind = "Toml"
    /\ n \in 1..Len(command)
    /\ AllTables(file.root, Prefix(command, n - 1))
    /\ command[n] \in KeysOf(Reached(file.root, Prefix(command, n - 1)))
    /\ ~IsTableChild(Reached(file.root, Prefix(command, n - 1)), command[n])

\* every token is matched by a table-valued child
WalkSucceeds == file.kind = "Toml" /\ AllTables(file.root, command)

FinalNode == Reached(file.root, command)

Returned == pc = "returned"

\* C1: when the walk meets a token that is no key of the current node, both
\* resolvers fail with CommandNotFound carrying the tokens from that one to
\* the last, joined by single spaces, whatever the later tokens name.
C1_NotFoundCarriesSuffix ==
    Returned =>
        \A n \in 1..Len(command) :
            MissesAt(n) => result = CommandNotFoundError(JoinSpaces(Suffix(command, n)))

\* a miss followed by a token that names a table and one that names a scalar
\* of the node where the walk stopped
C1_Witness ==
    /\ Returned
    /\ result.tag = "CommandNotFoundError"
    /\ \E n \in 1..Len(command) :
         /\ MissesAt(n)
         /\ \E j \in (n + 1)..Len(command) :
              IsTableChild(Reached(file.root, Prefix(command, n - 1)), command[j])
         /\ \E j \in (n + 1)..Len(command) :
              /\ command[j] \in KeysOf(Reached(file.root, Prefix(command, n - 1)))
              /\ ~IsTableChild(Reached(file.root, Prefix(command, n - 1)), command[j])

\* C2: when, with no earlier miss, a token names a key whose value is not a
\* table, the walk fails at once with NotATable(token, value): the loop stops
\* at that token and the tokens after it change nothing.
C2_NotATableStopsWalk ==
    Returned =>
        \A n \in 1..Len(command) :
            ScalarAt(n) =>
                /\ result = CommandContentInvalid(
                       NotTomlTable(command[n],
                                    ValueAt(Reached(file.root, Prefix(command, n - 1)), command[n])))
                /\ result.tag # "CommandNotFoundError"
                /\ idx = n
                /\ ~command_not_found
                /\ error_string = ""

\* a scalar key followed by a token the node does not have
C2_Witness ==
    /\ Returned
    /\ \E n \in 1..Len(command) :
         /\ ScalarAt(n)
         /\ n < Len(command)
         /\ command[n + 1] \notin KeysOf(Reached(file.root, Prefix(command, n - 1)))
         /\ result.tag = "CommandContentInvalid"

\* C3: when every token names a table-valued child and the final node's
\* `command` is a string, get_command returns exactly that string.
C3_CommandReturnedVerbatim ==
    (Returned /\ action = "Exec" /\ WalkSucceeds) =>
        ((/\ "command" \in KeysOf(FinalNode)
          /\ ValueAt(FinalNode, "command").kind = "String")
            => result = Ok(ValueAt(FinalNode, "command").str))

\* a command with leading, doubled and trailing blanks and quotes, on a node
\* that also has a desc
C3_Witness ==
    /\ Returned
    /\ action = "Exec"
    /\ WalkSucceeds
    /\ Len(command) = 2
    /\ "desc" \in KeysOf(FinalNode)
    /\ result = Ok("  ls  -l 'a b' ")

\* the error the tree walk gives on a path that some token fails to match
WalkError ==
    LET n == CHOOSE n \in 1..Len(command) : MissesAt(n) \/ ScalarAt(n)
    IN  IF MissesAt(n)
        THEN CommandNotFoundError(JoinSpaces(Suffix(command, n)))
        ELSE CommandContentInvalid(
                 NotTomlTable(command[n],
                              ValueAt(Reached(file.root, Prefix(command, n - 1)), command[n])))

\* C4: get_command_help fails exactly when the tree walk fails, with the
\* walk's error, and never with MissingField or WrongType.
C4_HelpFailsOnlyAsWalk ==
    (Returned /\ action = "Help" /\ file.kind = "Toml") =>
        /\ IsErr(result) <=> ~WalkSucceeds
        /\ ~WalkSucceeds => result = WalkError
        /\ result.tag = "CommandContentInvalid" => result.invalid.reason = "NotTomlTable"

\* help succeeds on a node without `command` and on one whose `command` is
\* not a string
C4_Witness ==
    /\ Returned
    /\ action = "Help"
    /\ WalkSucceeds
    /\ result.tag = "Ok"
    /\ Len(command) = 2
    /\ "command" \in KeysOf(FinalNode)
    /\ ValueAt(FinalNode, "command").kind = "Integer"

RECURSIVE ChildPairs(_)
\* one pair for every entry other than desc and command, in order
ChildPairs(entries) ==
    IF entries = <<>> THEN <<>>
    ELSE LET e == Head(entries)
             d == IF e.v.kind = "Table" /\ "desc" \in KeysOf(e.v)
                     /\ ValueAt(e.v, "desc").kind = "String"
                  THEN SomeStr(ValueAt(e.v, "desc").str)
                  ELSE NoneStr
         IN  IF e.k \in {"desc", "command"}
             THEN ChildPairs(Tail(entries))
             ELSE <<HelpPair(SomeStr(e.k), d)>> \o ChildPairs(Tail(entries))

SelfPair(node) ==
    HelpPair(NoneStr,
             IF "desc" \in KeysOf(node) /\ ValueAt(node, "desc").kind = "String"
             THEN SomeStr(ValueAt(node, "desc").str)
             ELSE NoneStr)

\* C5: on success get_command_help returns the self entry (None, desc of the
\* final node) followed by one (Some(key), desc) for every key other than
\* desc and command, in the map's order: 1 + that many entries, one of them
\* unnamed.
C5_HelpListsSelfThenChildren ==
    (Returned /\ action = "Help" /\ result.tag = "Ok") =>
        /\ result.val = <<SelfPair(FinalNode)>> \o ChildPairs(FinalNode.entries)
        /\ Len(result.val) = 1 + Cardinality(KeysOf(FinalNode) \ {"desc", "command"})
        /\ Len(result.val) >= 1
        /\ Cardinality({i \in DOMAIN result.val : ~result.val[i].name.some}) = 1

\* the node s of the unit tests' document: a table child with a desc, a
\* scalar child, and desc and command of its own
C5_Witness ==
    /\ Returned
    /\ action = "Help"
    /\ file = Toml(UnitToml)
    /\ command = <<"s">>
    /\ result = Ok(<<HelpPair(NoneStr, SomeStr("foo desc")),
                     HelpPair(SomeStr("c1"), SomeStr("bar desc")),
                     HelpPair(SomeStr("c2"), NoneStr)>>)

\* C6: when every token names a table-valued child and the final node has no
\* `command`, get_command fails with MissingField("command").
C6_MissingCommand ==
    (Returned /\ action = "Exec" /\ WalkSucceeds) =>
        ("command" \notin KeysOf(FinalNode)
            => result = CommandContentInvalid(MissingKey("command")))

\* a node with a desc and a child but no command
C6_Witness ==
    /\ Returned
    /\ action = "Exec"
    /\ WalkSucceeds
    /\ "command" \notin KeysOf(FinalNode)
    /\ "desc" \in KeysOf(FinalNode)
    /\ IsTableChild(FinalNode, "c1")
    /\ result.tag = "CommandContentInvalid"

\* C7: when every token names a table-valued child and the final node's
\* `command` is not a string, get_command fails with WrongType("command",
\* kind), which names the kind the value has.
C7_CommandNotString ==
    (Returned /\ action = "Exec" /\ WalkSucceeds) =>
        ((/\ "command" \in KeysOf(FinalNode)
          /\ ValueAt(FinalNode, "command").kind # "String")
            => /\ result = CommandContentInvalid(
                               NotTomlString("command", ValueAt(FinalNode, "command")))
               /\ DisplayError(result) =
                      "Command content invalid - Expected key 'command' to be String but got "
                          \o ValueAt(FinalNode, "command").kind)

C7_Witness ==
    /\ Returned
    /\ action = "Exec"
    /\ WalkSucceeds
    /\ "command" \in KeysOf(FinalNode)
    /\ ValueAt(FinalNode, "command").kind = "Datetime"
    /\ result.tag = "CommandContentInvalid"

-----------------------------------------------------------------------------
(* Two calls on one path *)

\* the keys of node whose values are tables
Subtrees(node) == {k \in KeysOf(node) : IsTableChild(node, k)}

\* the names that a help listing gives
ListedNames(pairs) == {pairs[i].name.str : i \in {j \in DOMAIN pairs : pairs[j].name.some}}

\* the first of the two calls was made in mode a
After(a) == prev.action = a /\ prev.command = command

\* C12: on a path that leads through tables to a node with a `command` field
\* and at least one child subtree, get_command returns the node's command and
\* get_command_help returns a list with an entry for each child subtree,
\* whichever of the two was called before.
C12_CommandWithSubcommands ==
    (Returned /\ WalkSucceeds /\ "command" \in KeysOf(FinalNode)
        /\ Subtrees(FinalNode) # {}) =>
        /\ action = "Exec" =>
               /\ result.tag = "Ok"
               /\ result.val = ValueAt(FinalNode, "command").str
        /\ action = "Help" =>
               /\ result.tag = "Ok"
               /\ Subtrees(FinalNode) \subseteq ListedNames(result.val)

\* C12 as amended: the `command` field is a string, and the list has an entry
\* for each child subtree whose key is not `desc`.
C12_StringCommandWithSubcommands ==
    (Returned /\ WalkSucceeds /\ "command" \in KeysOf(FinalNode)
        /\ ValueAt(FinalNode, "command").kind = "String"
        /\ Subtrees(FinalNode) # {}) =>
        /\ action = "Exec" => result = Ok(ValueAt(FinalNode, "command").str)
        /\ action = "Help" =>
               /\ result.tag = "Ok"
               /\ Subtrees(FinalNode) \ {"desc"} \subseteq ListedNames(result.val)
        /\ After("Help") => prev.result.tag = "Ok"
        /\ After("Exec") => prev.result = Ok(ValueAt(FinalNode, "command").str)

\* get_command on s after get_command_help on s, where s has a command, a
\* table named desc and the subcommand c1
C12_Witness ==
    /\ Returned
    /\ command = <<"s">>
    /\ action = "Exec"
    /\ After("Help")
    /\ WalkSucceeds
    /\ Subtrees(FinalNode) = {"desc", "c1"}
    /\ prev.result.tag = "Ok"
    /\ ListedNames(prev.result.val) = {"c1"}
    /\ result = Ok("echo s ran")

\* what get_command is specified to give at the final node
ExecSpecified ==
    IF "command" \notin KeysOf(FinalNode)
    THEN CommandContentInvalid(MissingKey("command"))
    ELSE IF ValueAt(FinalNode, "command").kind = "String"
         THEN Ok(ValueAt(FinalNode, "command").str)
         ELSE CommandContentInvalid(NotTomlString("command", ValueAt(FinalNode, "command")))

\* the Result is the one that the file, the mode and the tokens determine
ResultAsSpecified ==
    CASE file.kind \in {"Absent", "Unreadable"} -> result.tag = "IoError"
      [] file.kind = "Invalid" -> result.tag = "TomlDeError"
      [] WalkSucceeds /\ action = "Exec" -> result = ExecSpecified
      [] WalkSucceeds /\ action = "Help" ->
            result = Ok(<<SelfPair(FinalNode)>> \o ChildPairs(FinalNode.entries))
      [] OTHER -> result = WalkError

\* C13: a call's Result depends only on the file, the mode and the tokens: it
\* is the same whatever call came before, and a call repeated on the same
\* tokens gives the Result the first one gave.
C13_CallsAreIndependent ==
    Returned =>
        /\ ResultAsSpecified
        /\ After(action) => result = prev.result

\* get_command_help twice on a node with subcommands
C13_Witness ==
    /\ Returned
    /\ action = "Help"
    /\ After("Help")
    /\ result.tag = "Ok"
    /\ Len(result.val) = 3
    /\ prev.result = result

-----------------------------------------------------------------------------
(* The process: what it prints and how it exits *)

HasExited == pc = "exited"

\* the first token that the walk fails to find
MissIndex == CHOOSE n \in 1..Len(command) : MissesAt(n)

\* C8: when resolution fails on an unmatched token, in either mode, the
\* process writes nothing to standard output, writes the one line
\* "Error: Command '<suffix>' not found" to standard error, and exits with 1.
C8_NotFoundLine ==
    (HasExited /\ failure.tag = "CommandNotFoundError") =>
        /\ stdout = ""
        /\ stderr = "Error: Command '" \o JoinSpaces(Suffix(command, MissIndex))
                        \o "' not found\n"
        /\ exit_code = <<1>>

\* the exit status the child's ExitStatus stands for
ChildStatus ==
    IF child[1].kind = "code" THEN child[1].n ELSE 128 + child[1].n

\* C9: the exit status is 1 whenever loading or resolution fails, 0 on every
\* path that reports no error and spawns nothing (help, --passthrough), and
\* the child's exit code or 128 + signal when the shell was spawned.
C9_ExitStatus ==
    HasExited =>
        /\ IsErr(result) => exit_code = <<1>>
        /\ (stderr = "" /\ spawned = <<>>) => exit_code = <<0>>
        /\ spawned # <<>> => (child # <<>> /\ exit_code = <<ChildStatus>>)

\* C9 as amended: 1 whenever loading or resolution fails, or the shell cannot
\* be spawned or waited for; 0 after help output; 125 after printing the
\* resolved command with --passthrough; and, when the shell was spawned and
\* wait() gave its status, the child's exit code or 128 + signal.
C9_ExitStatusAmended ==
    HasExited =>
        /\ IsErr(result) => exit_code = <<1>>
        /\ failure # NoResult => exit_code = <<1>>
        /\ (stderr = "" /\ spawned = <<>>) =>
               \/ action = "Help" /\ result.tag = "Ok" /\ exit_code = <<0>>
               \/ action = "Exec" /\ result.tag = "Ok" /\ passthrough /\ exit_code = <<125>>
        /\ (spawned # <<>> /\ child # <<>>) => exit_code = <<ChildStatus>>
        /\ spawned # <<>> => (child # <<>> \/ failure.tag = "IoError")

\* the child was killed by SIGTERM
C9_Witness ==
    /\ HasExited
    /\ spawned # <<>>
    /\ child = <<Signaled(15)>>
    /\ exit_code = <<143>>

\* the resolver has been entered
Invoked == ret \in {"command_runner", "help_runner"}

\* C10: for every argument list, neither get_command nor get_command_help is
\* ever invoked with an empty token sequence.
C10_NeverInvokedEmpty ==
    Invoked => command # <<>>

\* C10 as amended: in exec mode an empty token path is rejected before
\* resolution (exit 1 without calling get_command); in help mode it is not
\* rejected, and get_command_help resolves it to the root of the document.
C10_EmptyRejectedInExecOnly ==
    /\ ret = "command_runner" => command # <<>>
    /\ Invoked => command = SelectSeq(args, LAMBDA a : ~StartsWithDash(a))
    /\ (pc \notin {"main", "options"} /\ command = <<>> /\ action = "Exec") =>
           (HasExited /\ ~Invoked /\ exit_code = <<1>> /\ result = NoResult)
    /\ (HasExited /\ ret = "help_runner" /\ command = <<>> /\ file.kind = "Toml") =>
           /\ result = Ok(<<SelfPair(file.root)>> \o ChildPairs(file.root.entries))
           /\ exit_code = <<0>>

\* only flags were given, in exec mode
C10_Witness ==
    /\ HasExited
    /\ args = <<"-p">>
    /\ command = <<>>
    /\ action = "Exec"
    /\ ~Invoked
    /\ stderr = "Error: No command provided\n"
    /\ exit_code = <<1>>

-----------------------------------------------------------------------------
(* The process: what it spawns *)

\* C11: in exec mode the shell is spawned only after get_command has returned
\* Ok, and then as <shell> [-i] -c <the string get_command returned>; a run
\* whose loading or resolution fails spawns nothing and exits with 1 after
\* writing the error.
C11_SpawnOnlyAfterResolution ==
    /\ spawned # <<>> =>
           /\ action = "Exec"
           /\ ret = "command_runner"
           /\ result.tag = "Ok"
           /\ WalkSucceeds
           /\ result.val = ValueAt(FinalNode, "command").str
           /\ Len(spawned) >= 3
           /\ spawned[Len(spawned) - 1] = "-c"
           /\ spawned[Len(spawned)] = result.val
    /\ (IsErr(result) \/ file.kind # "Toml") => spawned = <<>>
    /\ (HasExited /\ (IsErr(result) \/ file.kind # "Toml")) =>
           /\ exit_code = <<1>>
           /\ stderr # ""
           /\ child = <<>>

\* an interactive shell spawned with the command of s c1
C11_Witness ==
    /\ pc = "wait"
    /\ command = <<"s", "c1">>
    /\ result = Ok("  ls  -l 'a b' ")
    /\ spawned = <<"/bin/bash", "-i", "-c", "  ls  -l 'a b' ">>

=============================================================================
